---------------------------- MODULE Spec2Model ----------------------------
(***************************************************************************)
(* A model of bin/iam_template_build.py: the resolvers (scrub_name,        *)
(* build_role_trust, build_assume_role_policy_document,                    *)
(* parse_managed_policies), the assemblers (add_managed_policy, add_role,  *)
(* create_instance_profile, add_group, add_user) and the module-level      *)
(* fan-out and output loops.                                               *)
(*                                                                         *)
(* A Python string is a sequence of one-character strings, so that the     *)
(* regular expressions of the source are computed on the characters.      *)
(* A character outside ASCII is written by its code point ("U+00E9").      *)
(***************************************************************************)
EXTENDS Integers, Sequences, FiniteSets, TLC

VARIABLES
    re_unicode,       \* TRUE: str patterns are Unicode-aware (Python 3); FALSE: ASCII (Python 2)
    config,           \* c.config, the configuration tree
    current_account,  \* c.current_account
    template,         \* c.template: friendly name -> [resources, outputs]
    pc,               \* where the module-level code stands
    pos,              \* index of the next iteration of the fan-out loops
    written,          \* accounts whose output file has been written, in order
    error,            \* the exception that ended the run, [kind |-> "none"] if none
    call              \* a single call of one resolver: its arguments and its result

vars == <<re_unicode, config, current_account, template, pc, pos, written, error, call>>

---------------------------------------------------------------------------
(* Characters and strings *)

Lower == {"a", "b", "c", "d", "e", "f", "g", "h", "i", "j", "k", "l", "m",
          "n", "o", "p", "q", "r", "s", "t", "u", "v", "w", "x", "y", "z"}
Upper == {"A", "B", "C", "D", "E", "F", "G", "H", "I", "J", "K", "L", "M",
          "N", "O", "P", "Q", "R", "S", "T", "U", "V", "W", "X", "Y", "Z"}
Digit == {"0", "1", "2", "3", "4", "5", "6", "7", "8", "9"}

\* [A-Za-z0-9]
AsciiAlnum == Lower \cup Upper \cup Digit

\* Characters outside ASCII that are alphanumeric in Unicode: e-acute and the
\* Arabic-Indic digit three.
UnicodeAlnum == {"U+00E9", "U+0663"}

NL == "\n"

\* \w of the re module: [a-zA-Z0-9_], and with a Unicode-aware pattern every
\* character that is alphanumeric in Unicode.
IsWord(ch) == \/ ch \in AsciiAlnum
              \/ ch = "_"
              \/ (re_unicode /\ ch \in UnicodeAlnum)

Min(S) == CHOOSE x \in S : \A y \in S : x <= y

StartsWith(s, p) == Len(s) >= Len(p) /\ SubSeq(s, 1, Len(p)) = p

\* What ".*" matches at the start of s: "." matches no line break.
FirstLine(s) ==
    LET nls == {i \in 1..Len(s) : s[i] = NL}
    IN  IF nls = {} THEN s ELSE SubSeq(s, 1, Min(nls) - 1)

\* A mutant of scrub_name: underscores are kept.
scrub_name_keeps_underscore(name) == SelectSeq(name, IsWord)

\* re.sub('[\W_]+', '', name)
scrub_name(name) == SelectSeq(name, LAMBDA ch : IsWord(ch) /\ ch # "_")

---------------------------------------------------------------------------
(* String literals of the source *)

S_arn_aws == <<"a", "r", "n", ":", "a", "w", "s">>
S_import == <<"i", "m", "p", "o", "r", "t", ":">>
S_arn_iam == <<"a", "r", "n", ":", "a", "w", "s", ":", "i", "a", "m", ":", ":">>
S_root == <<":", "r", "o", "o", "t">>
S_saml_provider == <<":", "s", "a", "m", "l", "-", "p", "r", "o", "v", "i", "d", "e", "r", "/">>
S_role == <<":", "r", "o", "l", "e", "/">>
S_Role == <<"R", "o", "l", "e">>
S_Group == <<"G", "r", "o", "u", "p">>
S_User == <<"U", "s", "e", "r">>
S_InstanceProfile == <<"I", "n", "s", "t", "a", "n", "c", "e", "P", "r", "o", "f", "i", "l", "e">>
S_Arn == <<"A", "r", "n">>
S_PolicyArn == <<"P", "o", "l", "i", "c", "y", "A", "r", "n">>
S_ec2 == <<"e", "c", "2", ".", "a", "m", "a", "z", "o", "n", "a", "w", "s", ".", "c", "o", "m">>
S_all == <<"a", "l", "l">>

---------------------------------------------------------------------------
(* The accounts section of the configuration, the same in every run of the *)
(* model: two accounts, prod the parent, and a SAML provider.              *)

S_prod == <<"p", "r", "o", "d">>
S_dev == <<"d", "e", "v">>
S_ADFS == <<"A", "D", "F", "S">>
S_id_prod == <<"1", "1", "1", "1", "1", "1", "1", "1", "1", "1", "1", "1">>
S_id_dev == <<"2", "2", "2", "2", "2", "2", "2", "2", "2", "2", "2", "2">>

\* The configured accounts, in configuration order.
all_accounts == <<S_prod, S_dev>>

account_map_ids == [a \in {S_prod, S_dev} |-> IF a = S_prod THEN S_id_prod ELSE S_id_dev]

parent_account_id == S_id_prod

saml_provider == S_ADFS

---------------------------------------------------------------------------
(* lib.config_helper: the Account Resolver and the policy lookups *)

\* ["all"] is every configured account; otherwise the entries that are
\* configured friendly names, the others dropped.
search_accounts(context) ==
    IF context = <<S_all>> THEN all_accounts
    ELSE SelectSeq(context, LAMBDA n : n \in DOMAIN account_map_ids)

\* Called here only on accounts that search_accounts returned.
map_account(friendly_name) == account_map_ids[friendly_name]

\* The target context of an entity: its in_accounts, ["all"] without one.
context_of(model) ==
    IF "in_accounts" \in DOMAIN model THEN model.in_accounts ELSE <<S_all>>

Range(seq) == {seq[i] : i \in 1..Len(seq)}

is_local_managed_policy(name) ==
    \E i \in 1..Len(config.policies) : config.policies[i].name = name

is_managed_policy_in_account(name, account_id) ==
    \E i \in 1..Len(config.policies) :
        /\ config.policies[i].name = name
        /\ \E a \in Range(search_accounts(context_of(config.policies[i]))) :
               map_account(a) = account_id

---------------------------------------------------------------------------
(* build_role_trust *)

Ok(v) == [ok |-> TRUE, value |-> v]
Raise(e) == [ok |-> FALSE, error |-> e]

\* re.match("^.*\..*?$", trust): a "." on the first line, and the string ends
\* with that line or with the line break after it.
matches_service(trust) ==
    LET nls == {i \in 1..Len(trust) : trust[i] = NL}
    IN  /\ "." \in Range(FirstLine(trust))
        /\ (nls = {} \/ Min(nls) = Len(trust))

\* One pass of the loop over trusts: the list the principal goes to.
resolve_trust(trust) ==
    LET trust_account == search_accounts(<<trust>>)
    IN  IF trust_account # <<>>
        THEN [list |-> "sts",
              principal |-> [AWS |-> S_arn_iam \o account_map_ids[trust_account[1]] \o S_root]]
        ELSE IF trust = saml_provider
        THEN [list |-> "saml",
              principal |-> [Federated |-> S_arn_iam \o parent_account_id
                                           \o S_saml_provider \o saml_provider]]
        ELSE IF matches_service(trust)
        THEN [list |-> "sts", principal |-> [Service |-> trust]]
        ELSE [list |-> "raise", principal |-> [Unresolved |-> trust]]

sts_statement(principal) ==
    [Effect |-> "Allow", Principal |-> principal, Action |-> "sts:AssumeRole"]

saml_statement(principal) ==
    [Effect |-> "Allow", Principal |-> principal, Action |-> "sts:AssumeRoleWithSAML",
     Condition |-> [StringEquals |-> [SAML_aud |-> "https://signin.aws.amazon.com/saml"]]]

Principals(resolved, list) ==
    LET sel == SelectSeq(resolved, LAMBDA r : r.list = list)
    IN  [i \in 1..Len(sel) |-> sel[i].principal]

\* A mutant of build_role_trust: one statement list in the order of the
\* specifiers, the SAML statements not moved to the end.
build_role_trust_interleaved(trusts) ==
    LET resolved == [i \in 1..Len(trusts) |-> resolve_trust(trusts[i])]
        bad == {i \in 1..Len(trusts) : resolved[i].list = "raise"}
    IN  IF bad # {}
        THEN Raise([kind |-> "UnresolvedTrust", trust |-> trusts[Min(bad)]])
        ELSE Ok([Version |-> "2012-10-17",
                 Statement |-> [i \in 1..Len(trusts) |->
                     IF resolved[i].list = "sts"
                     THEN sts_statement(resolved[i].principal)
                     ELSE saml_statement(resolved[i].principal)]])

build_role_trust(trusts) ==
    LET resolved == [i \in 1..Len(trusts) |-> resolve_trust(trusts[i])]
        bad == {i \in 1..Len(trusts) : resolved[i].list = "raise"}
        sts_principals == Principals(resolved, "sts")
        saml_principals == Principals(resolved, "saml")
    IN  IF bad # {}
        THEN Raise([kind |-> "UnresolvedTrust", trust |-> trusts[Min(bad)]])
        ELSE Ok([Version |-> "2012-10-17",
                 Statement |->
                     [i \in 1..Len(sts_principals) |-> sts_statement(sts_principals[i])]
                     \o [i \in 1..Len(saml_principals) |-> saml_statement(saml_principals[i])]])

---------------------------------------------------------------------------
(* build_assume_role_policy_document *)

build_sts_statement(account, role) ==
    [Effect |-> "Allow", Action |-> "sts:AssumeRole",
     Resource |-> S_arn_iam \o account \o S_role \o role]

\* A mutant of build_assume_role_policy_document: every statement targets
\* the first account.
build_assume_role_policy_document_first_account(accounts, roles) ==
    [Version |-> "2012-10-17",
     Statement |-> [k \in 1..(Len(roles) * Len(accounts)) |->
         build_sts_statement(map_account(accounts[1]),
                             roles[((k - 1) \div Len(accounts)) + 1])]]

\* The statement of role r and account a is appended at place
\* (r - 1) * len(accounts) + a: roles are the outer loop.
build_assume_role_policy_document(accounts, roles) ==
    [Version |-> "2012-10-17",
     Statement |-> [k \in 1..(Len(roles) * Len(accounts)) |->
         build_sts_statement(map_account(accounts[((k - 1) % Len(accounts)) + 1]),
                             roles[((k - 1) \div Len(accounts)) + 1])]]

---------------------------------------------------------------------------
(* parse_managed_policies *)

Literal(arn) == [kind |-> "Literal", value |-> arn]
ImportValue(name) == [kind |-> "ImportValue", value |-> name]
Ref(title) == [kind |-> "Ref", value |-> title]

\* m.group(1) of re.match("^import:(.*)", managed_policy)
import_group(managed_policy) ==
    FirstLine(SubSeq(managed_policy, Len(S_import) + 1, Len(managed_policy)))

\* One pass of the loop over managed_policies.
resolve_managed_policy(c, managed_policy, working_on) ==
    IF StartsWith(managed_policy, S_arn_aws) THEN Ok(Literal(managed_policy))
    ELSE IF StartsWith(managed_policy, S_import)
    THEN Ok(ImportValue(import_group(managed_policy)))
    ELSE IF is_local_managed_policy(managed_policy)
    THEN IF is_managed_policy_in_account(managed_policy, map_account(c.current_account))
         THEN Ok(Ref(scrub_name(managed_policy)))
         ELSE Raise([kind |-> "PolicyNotInAccount", working_on |-> working_on,
                     policy |-> managed_policy, account |-> c.current_account])
    ELSE Raise([kind |-> "UnknownManagedPolicy", working_on |-> working_on,
                policy |-> managed_policy])

\* A mutant of parse_managed_policies: a local name is turned into a Ref
\* without either check.
parse_managed_policies_unchecked(c, managed_policies, working_on) ==
    Ok([i \in 1..Len(managed_policies) |->
        IF StartsWith(managed_policies[i], S_arn_aws) THEN Literal(managed_policies[i])
        ELSE IF StartsWith(managed_policies[i], S_import)
        THEN ImportValue(import_group(managed_policies[i]))
        ELSE Ref(scrub_name(managed_policies[i]))])

parse_managed_policies(c, managed_policies, working_on) ==
    LET resolved == [i \in 1..Len(managed_policies) |->
                        resolve_managed_policy(c, managed_policies[i], working_on)]
        bad == {i \in 1..Len(managed_policies) : ~resolved[i].ok}
    IN  IF bad # {} THEN Raise(resolved[Min(bad)].error)
        ELSE Ok([i \in 1..Len(managed_policies) |-> resolved[i].value])

---------------------------------------------------------------------------
(* troposphere's Template, as far as the source uses it: add_resource and   *)
(* add_output keep the order of the additions and refuse a title that the   *)
(* document already holds.                                                  *)

Done(c) == [ok |-> TRUE, c |-> c]
Fail(e, c) == [ok |-> FALSE, error |-> e, c |-> c]

Titles(seq) == {seq[i].title : i \in 1..Len(seq)}

add_resource(c, resource) ==
    LET doc == c.template[c.current_account]
    IN  IF resource.title \in Titles(doc.resources)
        THEN Fail([kind |-> "DuplicateKey", title |-> resource.title], c)
        ELSE Done([c EXCEPT !.template[c.current_account].resources = Append(@, resource)])

add_output(c, output) ==
    LET doc == c.template[c.current_account]
    IN  IF output.title \in Titles(doc.outputs)
        THEN Fail([kind |-> "DuplicateKey", title |-> output.title], c)
        ELSE Done([c EXCEPT !.template[c.current_account].outputs = Append(@, output)])

\* The end of every assembler: add_resource, then add_output when
\* template_outputs is "enabled".
register(c, resource, output) ==
    LET added == add_resource(c, resource)
    IN  IF added.ok /\ config.global.template_outputs = "enabled"
        THEN add_output(added.c, output)
        ELSE added

GetAtt(title, attribute) == [kind |-> "GetAtt", value |-> title, attribute |-> attribute]

\* A record with one more field: the keyword argument set under "if named".
WithName(named, resource, key, name) ==
    IF named THEN [f \in DOMAIN resource \cup {key} |->
                      IF f = key THEN name ELSE resource[f]]
    ELSE resource

---------------------------------------------------------------------------
(* The assemblers. The keyword arguments no claim reads are left out:       *)
(* Description, Groups/Roles/Users (parse_imports), DeletionPolicy,         *)
(* LoginProfile.                                                            *)

\* A mutant of add_managed_policy: the policy goes into the parent
\* account's document whatever the current account is.
add_managed_policy_into_parent(c, ManagedPolicyName, PolicyDocument, model, named) ==
    LET cfn_name == scrub_name(ManagedPolicyName)
        parent == [c EXCEPT !.current_account = all_accounts[1]]
        r == register(parent,
                 WithName(named, [Type |-> "ManagedPolicy", title |-> cfn_name,
                                  PolicyDocument |-> PolicyDocument],
                     "ManagedPolicyName", ManagedPolicyName),
                 [title |-> cfn_name \o S_PolicyArn, Value |-> Ref(cfn_name)])
    IN  [r EXCEPT !.c.current_account = c.current_account]

add_managed_policy(c, ManagedPolicyName, PolicyDocument, model, named) ==
    LET cfn_name == scrub_name(ManagedPolicyName)
    IN  register(c,
            WithName(named, [Type |-> "ManagedPolicy", title |-> cfn_name,
                             PolicyDocument |-> PolicyDocument],
                     "ManagedPolicyName", ManagedPolicyName),
            [title |-> cfn_name \o S_PolicyArn, Value |-> Ref(cfn_name)])

\* A mutant of create_instance_profile: the profile references the role by
\* its unsuffixed name.
create_instance_profile_wrong_ref(c, RoleName, model, named) ==
    LET cfn_name == scrub_name(RoleName \o S_InstanceProfile)
    IN  register(c,
            WithName(named, [Type |-> "InstanceProfile", title |-> cfn_name, Path |-> "/",
                             Roles |-> <<Ref(scrub_name(RoleName))>>],
                     "InstanceProfileName", RoleName),
            [title |-> cfn_name \o S_Arn, Value |-> Ref(cfn_name)])

create_instance_profile(c, RoleName, model, named) ==
    LET cfn_name == scrub_name(RoleName \o S_InstanceProfile)
    IN  register(c,
            WithName(named, [Type |-> "InstanceProfile", title |-> cfn_name, Path |-> "/",
                             Roles |-> <<Ref(scrub_name(RoleName \o S_Role))>>],
                     "InstanceProfileName", RoleName),
            [title |-> cfn_name \o S_Arn, Value |-> Ref(cfn_name)])

\* "managed_policies" in model, else the empty default.
managed_policy_arns(c, model, working_on) ==
    IF "managed_policies" \in DOMAIN model
    THEN parse_managed_policies(c, model.managed_policies, working_on)
    ELSE Ok(<<>>)

add_role(c, RoleName, model, named) ==
    LET cfn_name == scrub_name(RoleName \o S_Role)
        trust == build_role_trust(model.trusts)
        arns == managed_policy_arns(c, model, RoleName)
    IN  IF ~trust.ok THEN Fail(trust.error, c)
        ELSE IF ~arns.ok THEN Fail(arns.error, c)
        ELSE register(c,
                 WithName(named, [Type |-> "Role", title |-> cfn_name, Path |-> "/",
                                  AssumeRolePolicyDocument |-> trust.value,
                                  ManagedPolicyArns |-> arns.value], "RoleName", RoleName),
                 [title |-> cfn_name \o S_Arn, Value |-> GetAtt(cfn_name, "Arn")])

add_group(c, GroupName, model, named) ==
    LET cfn_name == scrub_name(GroupName \o S_Group)
        arns == managed_policy_arns(c, model, GroupName)
    IN  IF ~arns.ok THEN Fail(arns.error, c)
        ELSE register(c,
                 WithName(named, [Type |-> "Group", title |-> scrub_name(cfn_name), Path |-> "/",
                                  ManagedPolicyArns |-> arns.value], "GroupName", GroupName),
                 [title |-> cfn_name \o S_Arn, Value |-> GetAtt(cfn_name, "Arn")])

add_user(c, UserName, model, named) ==
    LET cfn_name == scrub_name(UserName \o S_User)
        arns == managed_policy_arns(c, model, UserName)
    IN  IF ~arns.ok THEN Fail(arns.error, c)
        ELSE register(c,
                 WithName(named, [Type |-> "User", title |-> cfn_name, Path |-> "/",
                                  ManagedPolicyArns |-> arns.value], "UserName", UserName),
                 [title |-> cfn_name \o S_Arn, Value |-> GetAtt(cfn_name, "Arn")])

---------------------------------------------------------------------------
(* Values shared by every specification *)

NoError == [kind |-> "none"]
Idle == [fn |-> "idle"]
\* c.template after construction: an empty document for every account.
NoTemplate == [a \in Range(all_accounts) |-> [resources |-> <<>>, outputs |-> <<>>]]
\* The 'global' section the source puts in when the file has none.
default_global ==
    [names |-> [policies |-> FALSE, roles |-> TRUE, users |-> TRUE, groups |-> TRUE],
     template_outputs |-> "enabled"]

NoConfig == [global |-> default_global,
             policies |-> <<>>, roles |-> <<>>, groups |-> <<>>, users |-> <<>>]

\* The object c as the functions of the source receive it.
C == [current_account |-> current_account, template |-> template]

---------------------------------------------------------------------------
(* scrub_name called on every string over ScrubAlphabet up to MaxLen *)

MaxLen == 3

ScrubAlphabet == {"a", "Z", "7", "_", "-", ".", NL, "U+00E9"}

RECURSIVE StringsUpTo(_, _)
StringsUpTo(A, n) ==
    IF n = 0 THEN {<<>>}
    ELSE LET shorter == StringsUpTo(A, n - 1)
         IN  shorter \cup {Append(s, ch) : s \in shorter, ch \in A}

InitScrub ==
    /\ re_unicode \in BOOLEAN
    /\ config = NoConfig
    /\ current_account = <<>>
    /\ template = NoTemplate
    /\ pc = "call"
    /\ pos = 0
    /\ written = <<>>
    /\ error = NoError
    /\ \E s \in StringsUpTo(ScrubAlphabet, MaxLen) :
          call = [fn |-> "scrub_name", arg |-> s, returned |-> FALSE, ret |-> <<>>]

ScrubCall ==
    /\ call.fn = "scrub_name"
    /\ ~call.returned
    /\ call' = [call EXCEPT !.returned = TRUE, !.ret = scrub_name(call.arg)]
    /\ UNCHANGED <<re_unicode, config, current_account, template, pc, pos, written, error>>

NextScrub == ScrubCall

SpecScrub == InitScrub /\ [][NextScrub]_vars

\* C8: scrub_name returns its input with every character outside [A-Za-z0-9]
\* removed and every character inside [A-Za-z0-9] kept in its original order,
\* and scrubbing the result again changes nothing.
C8_ScrubKeepsExactlyAsciiAlnum ==
    (call.fn = "scrub_name" /\ call.returned) =>
        /\ call.ret = SelectSeq(call.arg, LAMBDA ch : ch \in AsciiAlnum)
        /\ scrub_name(call.ret) = call.ret

---------------------------------------------------------------------------
(* build_role_trust called on every list of up to MaxTrusts specifiers *)

MaxTrusts == 3

S_prd == <<"p", "r", "d">>
S_multiline_service == <<"s", ".", "x", "\n", "y">>

\* The two account names, the SAML provider, a service, the context word
\* "all", a misspelt account name and a dotted name with a line break.
TrustSpecifiers == {S_prod, S_dev, S_ADFS, S_ec2, S_all, S_prd, S_multiline_service}

RECURSIVE ListsUpTo(_, _)
ListsUpTo(A, n) ==
    IF n = 0 THEN {<<>>}
    ELSE LET shorter == ListsUpTo(A, n - 1)
         IN  shorter \cup {Append(l, x) : l \in shorter, x \in A}

NotReturned == Raise(NoError)

InitTrust ==
    /\ re_unicode \in BOOLEAN
    /\ config = NoConfig
    /\ current_account = <<>>
    /\ template = NoTemplate
    /\ pc = "call"
    /\ pos = 0
    /\ written = <<>>
    /\ error = NoError
    /\ \E trusts \in ListsUpTo(TrustSpecifiers, MaxTrusts) :
          call = [fn |-> "build_role_trust", arg |-> trusts,
                  returned |-> FALSE, ret |-> NotReturned]

TrustCall ==
    /\ call.fn = "build_role_trust"
    /\ ~call.returned
    /\ call' = [call EXCEPT !.returned = TRUE, !.ret = build_role_trust(call.arg)]
    /\ UNCHANGED <<re_unicode, config, current_account, template, pc, pos, written, error>>

NextTrust == TrustCall

SpecTrust == InitTrust /\ [][NextTrust]_vars

TrustReturned == call.fn = "build_role_trust" /\ call.returned

\* The principal the claim gives a specifier: an account principal for a
\* configured friendly name, else a SAML principal for the provider name,
\* else a service principal for a name with a ".", else none.
ClaimedPrincipal(trust) ==
    IF trust \in DOMAIN account_map_ids
    THEN [AWS |-> S_arn_iam \o account_map_ids[trust] \o S_root]
    ELSE IF trust = saml_provider
    THEN [Federated |-> S_arn_iam \o parent_account_id \o S_saml_provider \o saml_provider]
    ELSE IF "." \in Range(trust) THEN [Service |-> trust]
    ELSE [Unresolved |-> trust]

ClaimedToFail(trust) == ClaimedPrincipal(trust) = [Unresolved |-> trust]

\* C2: every specifier resolves to exactly one principal kind, first match
\* wins: a configured friendly name gives the account principal of that
\* account, else the SAML provider name gives the SAML principal, else a
\* name with a "." gives a service principal; any other specifier makes
\* build_role_trust fail with an error naming it, and no document is returned.
C2_EverySpecifierResolvesAsClaimed ==
    TrustReturned =>
        IF \E i \in 1..Len(call.arg) : ClaimedToFail(call.arg[i])
        THEN /\ ~call.ret.ok
             /\ call.ret.error.kind = "UnresolvedTrust"
             /\ \E i \in 1..Len(call.arg) :
                    call.arg[i] = call.ret.error.trust /\ ClaimedToFail(call.arg[i])
        ELSE /\ call.ret.ok
             /\ Len(call.ret.value.Statement) = Len(call.arg)
             /\ {call.ret.value.Statement[k].Principal : k \in 1..Len(call.arg)}
                    = {ClaimedPrincipal(call.arg[i]) : i \in 1..Len(call.arg)}

StsIndexes(trusts) == {i \in 1..Len(trusts) : resolve_trust(trusts[i]).list = "sts"}
SamlIndexes(trusts) == {i \in 1..Len(trusts) : resolve_trust(trusts[i]).list = "saml"}

\* C3: when build_role_trust succeeds the document has one statement per
\* specifier resolved as account or service plus one per specifier resolved
\* as SAML, duplicates included; the sts:AssumeRole statements all come
\* before the sts:AssumeRoleWithSAML statements (which carry the fixed
\* SAML:aud condition), and each group keeps the order of the input list.
C3_TrustStatementsCountAndOrder ==
    (TrustReturned /\ call.ret.ok) =>
        LET st == call.ret.value.Statement
            sts == StsIndexes(call.arg)
            saml == SamlIndexes(call.arg)
            nSts == Cardinality(sts)
        IN  /\ Len(st) = nSts + Cardinality(saml)
            /\ \A i \in sts :
                 LET k == Cardinality({j \in sts : j <= i})
                 IN  /\ st[k].Action = "sts:AssumeRole"
                     /\ st[k].Principal = resolve_trust(call.arg[i]).principal
                     /\ "Condition" \notin DOMAIN st[k]
            /\ \A i \in saml :
                 LET k == nSts + Cardinality({j \in saml : j <= i})
                 IN  /\ st[k].Action = "sts:AssumeRoleWithSAML"
                     /\ st[k].Principal = resolve_trust(call.arg[i]).principal
                     /\ st[k].Condition = [StringEquals |->
                            [SAML_aud |-> "https://signin.aws.amazon.com/saml"]]

\* A successful call whose list names the SAML provider before an account
\* or a service, and names one specifier twice.
C3_Witness ==
    /\ TrustReturned
    /\ call.ret.ok
    /\ \E i \in SamlIndexes(call.arg) : \E j \in StsIndexes(call.arg) : i < j
    /\ \E i, j \in 1..Len(call.arg) : i < j /\ call.arg[i] = call.arg[j]

---------------------------------------------------------------------------
(* parse_managed_policies called on every list of up to MaxRefs references, *)
(* for either account, under a configuration that declares pol-a for every  *)
(* account and pol_b for dev alone                                          *)

MaxRefs == 3

S_pol_a == <<"p", "o", "l", "-", "a">>
S_pol_b == <<"p", "o", "l", "_", "b">>
S_ghost == <<"g", "h", "o", "s", "t">>
S_arn_ReadOnly == <<"a", "r", "n", ":", "a", "w", "s", ":", "i", "a", "m", ":", ":", "a", "w", "s",
                    ":", "p", "o", "l", "i", "c", "y", "/", "R", "e", "a", "d", "O", "n", "l", "y",
                    "A", "c", "c", "e", "s", "s">>
S_arn_aw == <<"a", "r", "n", ":", "a", "w">>
S_import_Shared == <<"i", "m", "p", "o", "r", "t", ":", "S", "h", "a", "r", "e", "d", "P", "o", "l",
                     "i", "c", "y">>
S_import_multiline == <<"i", "m", "p", "o", "r", "t", ":", "a", "\n", "b">>
S_alice == <<"a", "l", "i", "c", "e">>

\* An ARN, a string that only starts like one, two imports (one with a line
\* break), the two declared names and an undeclared name.
PolicyReferences == {S_arn_ReadOnly, S_arn_aw, S_import_Shared, S_import_multiline,
                     S_pol_a, S_pol_b, S_ghost}

ResolverConfig ==
    [global |-> default_global,
     policies |-> <<[name |-> S_pol_a], [name |-> S_pol_b, in_accounts |-> <<S_dev>>]>>,
     roles |-> <<>>, groups |-> <<>>, users |-> <<>>]

InitParse ==
    /\ re_unicode \in BOOLEAN
    /\ config = ResolverConfig
    /\ current_account \in Range(all_accounts)
    /\ template = NoTemplate
    /\ pc = "call"
    /\ pos = 0
    /\ written = <<>>
    /\ error = NoError
    /\ \E refs \in ListsUpTo(PolicyReferences, MaxRefs) :
          call = [fn |-> "parse_managed_policies", arg |-> refs,
                  returned |-> FALSE, ret |-> NotReturned]

ParseCall ==
    /\ call.fn = "parse_managed_policies"
    /\ ~call.returned
    /\ call' = [call EXCEPT !.returned = TRUE,
                            !.ret = parse_managed_policies(C, call.arg, S_alice)]
    /\ UNCHANGED <<re_unicode, config, current_account, template, pc, pos, written, error>>

NextParse == ParseCall

SpecParse == InitParse /\ [][NextParse]_vars

ParseReturned == call.fn = "parse_managed_policies" /\ call.returned

\* What the claim gives one reference: the ARN unchanged, the import of
\* the text after "import:", the local reference to the scrubbed name, or
\* one of the two errors, existence being looked at first.
ClaimedReference(ref) ==
    IF StartsWith(ref, S_arn_aws) THEN Ok(Literal(ref))
    ELSE IF StartsWith(ref, S_import)
    THEN Ok(ImportValue(SubSeq(ref, Len(S_import) + 1, Len(ref))))
    ELSE IF ~is_local_managed_policy(ref) THEN Raise([kind |-> "UnknownManagedPolicy"])
    ELSE IF ~is_managed_policy_in_account(ref, map_account(current_account))
    THEN Raise([kind |-> "PolicyNotInAccount"])
    ELSE Ok(Ref(scrub_name(ref)))

\* C1: parse_managed_policies resolves each reference on its own, first
\* match wins, in input order: "arn:aws..." unchanged, "import:X" as the
\* import of X, any other name as a local reference to its scrubbed name
\* when it is declared and scheduled for the current account; an undeclared
\* name fails with UnknownManagedPolicyError, a declared name not scheduled
\* for the account with PolicyNotInAccountError, and then no list is returned.
C1_ReferencesResolveAsClaimed ==
    ParseReturned =>
        LET refs == call.arg
            bad == {i \in 1..Len(refs) : ~ClaimedReference(refs[i]).ok}
        IN  IF bad = {}
            THEN /\ call.ret.ok
                 /\ call.ret.value = [i \in 1..Len(refs) |-> ClaimedReference(refs[i]).value]
            ELSE /\ ~call.ret.ok
                 /\ call.ret.error.kind = ClaimedReference(refs[Min(bad)]).error.kind
                 /\ call.ret.error.policy = refs[Min(bad)]

---------------------------------------------------------------------------
(* The run: the module-level code from the policies loop to the last        *)
(* output file, for every configuration of at most MaxEntities entities     *)

MaxEntities == 3

S_Admin == <<"A", "d", "m", "i", "n">>
S_Ops == <<"O", "p", "s">>
S_assume_admin == <<"a", "s", "s", "u", "m", "e", "-", "a", "d", "m", "i", "n">>
S_file_pol == <<"f", "i", "l", "e", "-", "p", "o", "l">>
S_s3_json == <<"s", "3", ".", "j", "s", "o", "n">>
S_devs == <<"d", "e", "v", "s">>
S_bob == <<"b", "o", "b">>
S_lambda == <<"l", "a", "m", "b", "d", "a", ".", "a", "m", "a", "z", "o", "n", "a", "w", "s",
              ".", "c", "o", "m">>

PolicyModels ==
    {[name |-> S_pol_a],
     [name |-> S_pol_a, in_accounts |-> <<S_dev>>],
     [name |-> S_assume_admin, assume |-> [accounts |-> <<S_prod>>, roles |-> <<S_Admin>>]],
     [name |-> S_assume_admin, in_accounts |-> <<S_dev, S_prod>>,
      assume |-> [accounts |-> <<S_all>>, roles |-> <<S_Admin, S_Ops>>]],
     [name |-> S_file_pol, policy_file |-> S_s3_json, in_accounts |-> <<S_prod>>]}

RoleModels ==
    {[name |-> S_Admin, trusts |-> <<S_ec2>>],
     [name |-> S_Admin, trusts |-> <<S_prod, S_ADFS, S_lambda>>,
      managed_policies |-> <<S_pol_a>>,
      in_accounts |-> <<S_prod>>],
     [name |-> S_Ops, trusts |-> <<S_prd>>],
     [name |-> S_Ops, trusts |-> <<S_ADFS, S_ec2, S_dev>>,
      managed_policies |-> <<S_arn_ReadOnly, S_import_Shared>>,
      in_accounts |-> <<S_dev, S_prod>>]}

GroupModels ==
    {[name |-> S_devs, managed_policies |-> <<S_pol_a>>],
     [name |-> S_devs, in_accounts |-> <<S_prd>>],
     [name |-> S_devs, in_accounts |-> <<S_prod, S_prod>>]}

UserModels ==
    {[name |-> S_alice, managed_policies |-> <<S_ghost>>],
     [name |-> S_alice, managed_policies |-> <<S_ghost>>, in_accounts |-> <<S_prd>>],
     [name |-> S_alice, managed_policies |-> <<S_pol_a>>, in_accounts |-> <<S_prod>>],
     [name |-> S_bob, managed_policies |-> <<S_arn_ReadOnly, S_ghost>>,
      in_accounts |-> <<S_dev>>],
     [name |-> S_bob]}

\* The lists of up to n models with different names: a section of the
\* configuration is a mapping keyed by entity name, read in file order.
RECURSIVE Sections(_, _)
Sections(models, n) ==
    IF n = 0 THEN {<<>>}
    ELSE LET shorter == Sections(models, n - 1)
         IN  shorter \cup UNION {
                 {Append(l, m) : m \in {x \in models :
                                          \A i \in 1..Len(l) : l[i].name # x.name}}
                 : l \in shorter}

Globals == {default_global, [default_global EXCEPT !.template_outputs = "disabled"]}

Configurations ==
    {cfg \in [global : Globals,
              policies : Sections(PolicyModels, MaxEntities),
              roles : Sections(RoleModels, MaxEntities),
              groups : Sections(GroupModels, MaxEntities),
              users : Sections(UserModels, MaxEntities)] :
        Len(cfg.policies) + Len(cfg.roles) + Len(cfg.groups) + Len(cfg.users) <= MaxEntities}

\* The passes of one section's two nested loops, in order: for every
\* entity, for every account of search_accounts(context).
RECURSIVE fan_out(_, _, _)
fan_out(section, models, i) ==
    IF i > Len(models) THEN <<>>
    ELSE LET accounts == search_accounts(context_of(models[i]))
         IN  [j \in 1..Len(accounts) |->
                 [section |-> section, index |-> i, account |-> accounts[j]]]
             \o fan_out(section, models, i + 1)

\* A mutant of Schedule: the roles loop runs before the policies loop.
Schedule_roles_first ==
    fan_out("roles", config.roles, 1) \o fan_out("policies", config.policies, 1)
    \o fan_out("groups", config.groups, 1) \o fan_out("users", config.users, 1)

\* Every pass of the four fan-out loops, in the order the module runs them.
Schedule ==
    fan_out("policies", config.policies, 1) \o fan_out("roles", config.roles, 1)
    \o fan_out("groups", config.groups, 1) \o fan_out("users", config.users, 1)

\* A mutant of fan_out_finished: the output loop starts one pass early.
fan_out_finished_early == pos >= Len(Schedule)

\* The output loop is reached when the four fan-out loops have ended.
fan_out_finished == pos > Len(Schedule)

Pass(section) ==
    /\ pc = "run"
    /\ pos <= Len(Schedule)
    /\ Schedule[pos].section = section

\* The end of one pass: the document and current account it leaves, and
\* either the next pass or the exception that ends the run.
Finish(result) ==
    /\ current_account' = result.c.current_account
    /\ template' = result.c.template
    /\ IF result.ok
       THEN /\ pos' = pos + 1
            /\ UNCHANGED <<pc, error>>
       ELSE /\ pc' = "failed"
            /\ error' = result.error
            /\ UNCHANGED pos
    /\ UNCHANGED <<re_unicode, config, written, call>>

InitRun ==
    /\ re_unicode \in BOOLEAN
    /\ config \in Configurations
    /\ current_account = <<>>
    /\ template = NoTemplate
    /\ pc = "run"
    /\ pos = 1
    /\ written = <<>>
    /\ error = NoError
    /\ call = Idle

\* policy_document_from_jinja reads and renders a file: it returns a
\* document or raises, whichever the file makes it do.
PolicyPass ==
    /\ Pass("policies")
    /\ LET model == config.policies[Schedule[pos].index]
           c == [current_account |-> Schedule[pos].account, template |-> template]
       IN  \E rendered \in (IF "policy_file" \in DOMAIN model THEN BOOLEAN ELSE {TRUE}) :
             LET policy_document ==
                     IF "assume" \in DOMAIN model
                     THEN build_assume_role_policy_document(
                              search_accounts(model.assume.accounts), model.assume.roles)
                     ELSE IF "policy_file" \in DOMAIN model
                     THEN [rendered |-> model.policy_file,
                           account |-> map_account(c.current_account)]
                     ELSE [text |-> ""]
             IN  IF ~rendered
                 THEN Finish(Fail([kind |-> "TemplateRender", policy |-> model.name,
                                   policy_file |-> model.policy_file], c))
                 ELSE Finish(add_managed_policy(c, model.name, policy_document, model,
                                                config.global.names.policies))

RolePass ==
    /\ Pass("roles")
    /\ LET model == config.roles[Schedule[pos].index]
           c == [current_account |-> Schedule[pos].account, template |-> template]
           role == add_role(c, model.name, model, config.global.names.roles)
       IN  IF role.ok /\ S_ec2 \in Range(model.trusts)
           THEN Finish(create_instance_profile(role.c, model.name, model,
                                               config.global.names.roles))
           ELSE Finish(role)

GroupPass ==
    /\ Pass("groups")
    /\ LET model == config.groups[Schedule[pos].index]
           c == [current_account |-> Schedule[pos].account, template |-> template]
       IN  Finish(add_group(c, model.name, model, config.global.names.groups))

UserPass ==
    /\ Pass("users")
    /\ LET model == config.users[Schedule[pos].index]
           c == [current_account |-> Schedule[pos].account, template |-> template]
       IN  Finish(add_user(c, model.name, model, config.global.names.users))

\* One pass of the output loop: the next account's document is written.
WriteTemplate ==
    /\ pc = "run"
    /\ fan_out_finished
    /\ Len(written) < Len(search_accounts(<<S_all>>))
    /\ written' = Append(written, search_accounts(<<S_all>>)[Len(written) + 1])
    /\ pc' = IF Len(written') = Len(search_accounts(<<S_all>>)) THEN "done" ELSE "run"
    /\ UNCHANGED <<re_unicode, config, current_account, template, pos, error, call>>

Next == PolicyPass \/ RolePass \/ GroupPass \/ UserPass \/ WriteTemplate

Spec == InitRun /\ [][Next]_vars

---------------------------------------------------------------------------
(* What the run's claims speak of *)

SectionNames == {"policies", "roles", "groups", "users"}

ResourceType(section) ==
    CASE section = "policies" -> "ManagedPolicy"
      [] section = "roles" -> "Role"
      [] section = "groups" -> "Group"
      [] section = "users" -> "User"

\* The resource identifier of an entity: its scrubbed name and type suffix.
ResourceTitle(section, name) ==
    CASE section = "policies" -> scrub_name(name)
      [] section = "roles" -> scrub_name(name \o S_Role)
      [] section = "groups" -> scrub_name(name \o S_Group)
      [] section = "users" -> scrub_name(name \o S_User)

RegisteredIn(documents, account, type, title) ==
    \E r \in Range(documents[account].resources) : r.Type = type /\ r.title = title

Registered(account, type, title) == RegisteredIn(template, account, type, title)

Assembled(task) ==
    Registered(task.account, ResourceType(task.section),
               ResourceTitle(task.section, config[task.section][task.index].name))

\* C4: no output document is written until every policy, role, group and
\* user has been assembled for every one of its target accounts; when a
\* step fails the run stops there and no output document has been written.
C4_NoOutputUnlessAllAssembled ==
    /\ written # <<>> =>
          /\ error = NoError
          /\ pos > Len(Schedule)
          /\ \A k \in 1..Len(Schedule) : Assembled(Schedule[k])
    /\ error # NoError =>
          /\ written = <<>>
          /\ pc = "failed"
          /\ ~ENABLED Next

\* A run that failed after it had assembled something.
C4_Witness == pc = "failed" /\ pos > 1 /\ written = <<>>

\* A reference the claim calls undeclared: no ARN, no import, no policy of
\* the configuration.
Undeclared(ref) ==
    /\ ~StartsWith(ref, S_arn_aws)
    /\ ~StartsWith(ref, S_import)
    /\ ~is_local_managed_policy(ref)

\* The users of the configuration that list an undeclared policy.
UndeclaredUses ==
    {use \in (1..Len(config.users)) \X PolicyReferences :
        /\ "managed_policies" \in DOMAIN config.users[use[1]]
        /\ use[2] \in Range(config.users[use[1]].managed_policies)
        /\ Undeclared(use[2])}

\* C5 as stated: a run whose configuration has a user listing an undeclared
\* managed policy fails with UnknownManagedPolicyError naming the user and
\* the policy.
C5_UndeclaredPolicyFailsTheRun ==
    (pc \in {"done", "failed"} /\ UndeclaredUses # {}) =>
        /\ pc = "failed"
        /\ error.kind = "UnknownManagedPolicy"
        /\ \E use \in UndeclaredUses :
               /\ error.working_on = config.users[use[1]].name
               /\ error.policy = use[2]

\* The reference resolves for the account: an ARN, an import, or a policy
\* declared and scheduled for it.
Resolves(ref, account) ==
    \/ StartsWith(ref, S_arn_aws)
    \/ StartsWith(ref, S_import)
    \/ /\ is_local_managed_policy(ref)
       /\ is_managed_policy_in_account(ref, map_account(account))

\* C5 amended: when the run reaches add_user for a user in whose list an
\* undeclared policy comes before any other reference that does not
\* resolve, that pass fails with UnknownManagedPolicyError naming the user
\* and the policy, and no output document is written.
C5_ReachedUserWithUndeclaredPolicyFails ==
    [][(Pass("users") /\ "managed_policies" \in DOMAIN config.users[Schedule[pos].index])
       => LET user == config.users[Schedule[pos].index]
              refs == user.managed_policies
          IN  \A i \in 1..Len(refs) :
                  (/\ Undeclared(refs[i])
                   /\ \A j \in 1..(i - 1) : Resolves(refs[j], Schedule[pos].account))
                  => /\ pc' = "failed"
                     /\ error' = [kind |-> "UnknownManagedPolicy",
                                  working_on |-> user.name, policy |-> refs[i]]
                     /\ written' = <<>>]_vars

\* A run that add_user ended with the error, after a resolved reference.
C5_Witness ==
    /\ pc = "failed"
    /\ error.kind = "UnknownManagedPolicy"
    /\ \E i \in 1..Len(config.users) : config.users[i].name = error.working_on
    /\ pos > 1

\* C6, the state part: after a successful run an entity's resource is in
\* the document of account A exactly when A is in search_accounts of the
\* entity's context.
C6_PlacedWhereFannedOut ==
    pc = "done" =>
        \A section \in SectionNames : \A i \in 1..Len(config[section]) :
            \A A \in Range(all_accounts) :
                Registered(A, ResourceType(section),
                           ResourceTitle(section, config[section][i].name))
                <=> A \in Range(search_accounts(context_of(config[section][i])))

\* C6, the step part: a pass changes no document but the current
\* account's, and what it adds comes after what the document held.
C6_OnlyCurrentDocumentChanges ==
    /\ \A A \in Range(all_accounts) : A # current_account' => template'[A] = template[A]
    /\ \A A \in Range(all_accounts) :
          /\ Len(template'[A].resources) >= Len(template[A].resources)
          /\ SubSeq(template'[A].resources, 1, Len(template[A].resources))
                = template[A].resources
          /\ Len(template'[A].outputs) >= Len(template[A].outputs)
          /\ SubSeq(template'[A].outputs, 1, Len(template[A].outputs))
                = template[A].outputs
    /\ pos' = pos + 1 =>
          RegisteredIn(template', current_account', ResourceType(Schedule[pos].section),
              ResourceTitle(Schedule[pos].section,
                            config[Schedule[pos].section][Schedule[pos].index].name))

\* C6: fan-out placement. After a successful run every entity's resource
\* is registered in the document of account A if and only if A is in
\* search_accounts(context); each assembler call adds its resource and its
\* outputs to the document of the current account only.
C6_FanOutPlacement ==
    []C6_PlacedWhereFannedOut /\ [][C6_OnlyCurrentDocumentChanges]_vars

\* A successful run with an entity fanned out to one account of the two
\* and an entity fanned out to both.
C6_Witness ==
    /\ pc = "done"
    /\ \E section \in SectionNames : \E i \in 1..Len(config[section]) :
          Len(search_accounts(context_of(config[section][i]))) = 1
    /\ \E section \in SectionNames : \E i \in 1..Len(config[section]) :
          Len(search_accounts(context_of(config[section][i]))) = 2

S_arn_prod_Admin == <<"a", "r", "n", ":", "a", "w", "s", ":", "i", "a", "m", ":", ":",
                      "1", "1", "1", "1", "1", "1", "1", "1", "1", "1", "1", "1",
                      ":", "r", "o", "l", "e", "/", "A", "d", "m", "i", "n">>

\* The (account, role) pairs of an assume shorthand, by their places in the
\* two lists.
AssumePairs(assume) ==
    (1..Len(search_accounts(assume.accounts))) \X (1..Len(assume.roles))

AssumeResource(assume, pair) ==
    S_arn_iam \o account_map_ids[search_accounts(assume.accounts)[pair[1]]]
    \o S_role \o assume.roles[pair[2]]

\* C7: the content of a policy with the assume shorthand has one
\* sts:AssumeRole statement for every (account, role) pair of the resolved
\* accounts and the named roles, each on arn:aws:iam::<id>:role/<role>;
\* accounts ["prod"] and roles ["Admin"] give the single statement on
\* arn:aws:iam::111111111111:role/Admin; the content is the same in every
\* account the policy is fanned out to.
C7_AssumeStatementsAreTheCrossProduct ==
    \A A \in Range(all_accounts) : \A r \in Range(template[A].resources) :
        \A i \in 1..Len(config.policies) :
            (/\ r.Type = "ManagedPolicy"
             /\ r.title = scrub_name(config.policies[i].name)
             /\ "assume" \in DOMAIN config.policies[i])
            => LET assume == config.policies[i].assume
                   st == r.PolicyDocument.Statement
               IN  /\ Len(st) = Cardinality(AssumePairs(assume))
                   /\ \A k \in 1..Len(st) :
                          st[k].Effect = "Allow" /\ st[k].Action = "sts:AssumeRole"
                   /\ \A pair \in AssumePairs(assume) :
                          Cardinality({k \in 1..Len(st) :
                              st[k].Resource = AssumeResource(assume, pair)})
                          = Cardinality({other \in AssumePairs(assume) :
                              AssumeResource(assume, other) = AssumeResource(assume, pair)})
                   /\ (assume = [accounts |-> <<S_prod>>, roles |-> <<S_Admin>>]
                       => /\ Len(st) = 1
                          /\ st[1].Resource = S_arn_prod_Admin)

\* The two-account, two-role shorthand assembled into both documents.
C7_Witness ==
    \A A \in Range(all_accounts) : \E r \in Range(template[A].resources) :
        /\ r.Type = "ManagedPolicy"
        /\ r.title = scrub_name(S_assume_admin)
        /\ Len(r.PolicyDocument.Statement) = 4

\* C9: for every role and account it is assembled into, an InstanceProfile
\* is registered in that account's document if and only if one of the
\* role's trust specifiers resolves to the service principal
\* ec2.amazonaws.com; it comes after the role's resource and its Roles list
\* is the one reference to scrub_name(RoleName + "Role").
C9_InstanceProfileIffEc2Trust ==
    pc # "failed" =>
        \A A \in Range(all_accounts) : \A i \in 1..Len(config.roles) :
            LET model == config.roles[i]
                res == template[A].resources
                role_title == scrub_name(model.name \o S_Role)
                roles == {k \in 1..Len(res) :
                             res[k].Type = "Role" /\ res[k].title = role_title}
                profiles == {k \in 1..Len(res) :
                                /\ res[k].Type = "InstanceProfile"
                                /\ res[k].title = scrub_name(model.name \o S_InstanceProfile)}
            IN  /\ roles = {} => profiles = {}
                /\ roles # {} =>
                      /\ profiles # {} <=>
                            \E t \in Range(model.trusts) :
                                resolve_trust(t).principal = [Service |-> S_ec2]
                      /\ \A k \in profiles :
                            /\ \A m \in roles : m < k
                            /\ res[k].Roles = <<Ref(role_title)>>

\* A document that holds a role and its instance profile.
C9_Witness ==
    \E A \in Range(all_accounts) :
        /\ \E r \in Range(template[A].resources) : r.Type = "Role"
        /\ \E r \in Range(template[A].resources) : r.Type = "InstanceProfile"

\* C10: every local managed-policy reference held by a resource of an
\* account's document points to a ManagedPolicy resource of that document,
\* in every state of the run: the policy was assembled for the account
\* before the role, group or user that parse_managed_policies accepted the
\* reference for.
C10_NoDanglingLocalReference ==
    \A A \in Range(all_accounts) : \A r \in Range(template[A].resources) :
        "ManagedPolicyArns" \in DOMAIN r =>
            \A ref \in Range(r.ManagedPolicyArns) :
                ref.kind = "Ref" => Registered(A, "ManagedPolicy", ref.value)

\* A document in which a role, group or user holds a local reference.
C10_Witness ==
    \E A \in Range(all_accounts) : \E r \in Range(template[A].resources) :
        /\ "ManagedPolicyArns" \in DOMAIN r
        /\ \E ref \in Range(r.ManagedPolicyArns) : ref.kind = "Ref"

===========================================================================
